---- MODULE Spec2Model ----
(***************************************************************************)
(* A model of mrjob's SparkMRJobRunner (mrjob/spark/runner.py): grouping   *)
(* of steps, construction of the harness arguments, the sequential         *)
(* submission loop, and the lazily built composite filesystem.             *)
(***************************************************************************)
EXTENDS Integers, Sequences, FiniteSets, TLC

VARIABLES
    steps,                  \* self._get_steps(): the job's steps, in order
    job_key,                \* self._job_key, a string (sequence of characters)
    job_args,               \* self._mr_job_extra_args(), passthrough arguments
    pc,                     \* position inside _run_steps_on_spark
    groups,                 \* the list returned by _group_steps(steps)
    gi,                     \* 1-based index of the group the loop is at
    submissions,            \* history of the calls of _run_spark_submit
    exc,                    \* the exception that left _run_steps_on_spark
    _fs,                    \* self._fs
    boto3_installed,        \* mrjob.fs.s3.boto3 is importable
    google_libs_installed,  \* mrjob.fs.gcs.google is importable
    invoked,                \* per backend, number of calls that reached it
    lastOp,                 \* the last operation made through self.fs
    fs_builds,              \* number of CompositeFilesystems built so far
    _mrjob_cls,             \* self._mrjob_cls
    opts,                   \* self._opts
    _spark_tmp_dir,         \* self._spark_tmp_dir
    _upload_mgr,            \* self._upload_mgr
    _working_dir_mgr,       \* self._working_dir_mgr
    _spark_files,           \* self._spark_files
    _job_script_copy,       \* self._job_script_copy
    _mrjob_script_copy,     \* self._mrjob_script_copy
    script_copies,          \* number of calls of _symlink_or_copy so far
    copy_returns,           \* what the calls of _get_job_script_copy returned
    fs_calls,               \* history of the calls of _upload_local_files
    ui                      \* 1-based index of the file _upload_local_files is at

vars == <<steps, job_key, job_args, pc, groups, gi, submissions, exc,
          _fs, boto3_installed, google_libs_installed, invoked, lastOp,
          fs_builds, _mrjob_cls, opts, _spark_tmp_dir, _upload_mgr,
          _working_dir_mgr, _spark_files, _job_script_copy,
          _mrjob_script_copy, script_copies, copy_returns, fs_calls, ui>>

runVars == <<steps, job_key, job_args, pc, groups, gi, submissions, exc>>
fsVars == <<_fs, boto3_installed, google_libs_installed, invoked, lastOp,
            fs_builds>>
jobVars == <<_mrjob_cls, opts, _spark_tmp_dir, _upload_mgr, _working_dir_mgr,
             _spark_files, _job_script_copy, _mrjob_script_copy,
             script_copies, copy_returns, fs_calls, ui>>

(***************************************************************************)
(* Bounds                                                                  *)
(***************************************************************************)
MaxSteps == 4
MaxExitCode == 1
MaxCalls == 2
MaxConfSteps == 2
MaxJobSteps == 2
MaxCopyCalls == 3

(***************************************************************************)
(* Python values                                                           *)
(***************************************************************************)
\* Python's None, where the other values are records
None == [type |-> "NoneType"]
\* None for an optional step number (step numbers are naturals)
NoneInt == -1

PyStr(s) == [str |-> s]
PyInt(n) == [int |-> n]
PyChars(cs) == [chars |-> cs]

\* a dict as the set of its (key, value) items
PyDict(items) == [type |-> "dict", items |-> items]

\* sep.join(seq), on sequences of tokens
RECURSIVE PyJoin(_, _)
PyJoin(sep, seq) ==
    IF Len(seq) = 0 THEN <<>>
    ELSE IF Len(seq) = 1 THEN <<seq[1]>>
    ELSE <<seq[1], sep>> \o PyJoin(sep, Tail(seq))

(***************************************************************************)
(* Steps                                                                   *)
(***************************************************************************)
_STEP_TYPES == {"spark", "spark_jar", "spark_script", "streaming"}

CompressTrue == PyDict({<<"mapreduce.map.output.compress", "true">>,
                        <<"mapreduce.map.output.compress.codec", "gz">>})

\* step.get('jobconf'): None when the step has no jobconf
JobConfs == {None, PyDict({}), CompressTrue}

StepUniverse ==
    [type : {"streaming"}, jobconf : JobConfs]
        \cup [type : _STEP_TYPES \ {"streaming"}, jobconf : {None}]

\* jobconfs that set, or leave out, map output compression and its codec,
\* under the current names or the names of older Hadoop versions
CompressValues == {"true", "false", "False"}

ConfJobConfs ==
    {None, PyDict({}),
     PyDict({<<"mapreduce.map.output.compress.codec", "gz">>}),
     PyDict({<<"mapred.compress.map.output", "true">>,
             <<"mapred.map.output.compression.codec", "gz">>})}
        \cup {PyDict({<<"mapreduce.map.output.compress", v>>}) :
                 v \in CompressValues}
        \cup {PyDict({<<"mapreduce.map.output.compress", v>>,
                      <<"mapreduce.map.output.compress.codec", "gz">>}) :
                 v \in CompressValues}

ConfStepUniverse ==
    [type : {"streaming"}, jobconf : ConfJobConfs]
        \cup [type : {"spark"}, jobconf : {None}]

RECURSIVE SeqsUpTo(_, _)
SeqsUpTo(S, n) ==
    IF n = 0 THEN {<<>>}
    ELSE LET shorter == SeqsUpTo(S, n - 1)
         IN  shorter \cup {Append(s, e) : s \in {t \in shorter : Len(t) = n - 1},
                                          e \in S}

JobKeys == {<<"w", "c", ".", "1">>, <<"m", "_", "r", "-", "2">>}
JobArgs == {<<>>, <<"--verbose">>}
ExitCodes == 0..MaxExitCode

(***************************************************************************)
(* Paths, options and the job class                                        *)
(***************************************************************************)
\* a path or URI: the filesystem that holds it and its components, each a
\* sequence of characters; a path on the local disk is no URI
Path(scheme, parts) == [scheme |-> scheme, parts |-> parts]

\* mrjob.parse.is_uri(path)
is_uri(path) == path.scheme # "local"

\* posixpath.join(path, name) and os.path.join(path, name)
join(path, name) == [path EXCEPT !.parts = Append(@, name)]

\* the name of the file or directory a path ends with
basename(path) == path.parts[Len(path.parts)]

\* the class of the job
MRJ == [type |-> "class", name |-> <<"M", "R", "J">>]

\* tempfile.gettempdir()
gettempdir == Path("local", << <<"tmp">> >>)

\* the values of the spark_tmp_dir option: not set, a local directory, a
\* URI on S3
SparkTmpDirs ==
    {None, Path("local", << <<"scratch">> >>), Path("s3", << <<"bucket">> >>)}

\* the defaults of _default_opts, with no setup and no spark_tmp_dir
DefaultOpts ==
    [spark_master |-> "local[*]", spark_deploy_mode |-> "client",
     spark_tmp_dir |-> None, setup |-> FALSE]

(***************************************************************************)
(* Collaborators defined outside mrjob/spark/runner.py                     *)
(***************************************************************************)
\* MRJobRunner._num_steps(): len(self._get_steps())
_num_steps == Len(steps)

\* MRJobRunner._get_step(step_num); step numbers are 0-indexed
_get_step(step_num) == steps[step_num + 1]

\* the job's input paths and output directory
InputPaths == << <<"input", 1>>, <<"input", 2>> >>
_output_dir == <<"output", 0>>
_intermediate_output_uri(step_num) == <<"step-output", step_num>>

\* MRJobRunner._step_input_uris(step_num): the first step reads the job's
\* input, every other step reads the output of the step before it
_step_input_uris(step_num) ==
    IF step_num = 0 THEN InputPaths
    ELSE <<_intermediate_output_uri(step_num - 1)>>

\* MRJobRunner._step_output_uri(step_num): the last step writes the job's
\* output, every other step writes intermediate output
_step_output_uri(step_num) ==
    IF step_num = _num_steps - 1 THEN _output_dir
    ELSE _intermediate_output_uri(step_num)

\* mrjob.util.cmd_line(args): the arguments joined by spaces
cmd_line(args) == [cmdline |-> PyJoin(" ", args)]

\* d.get(key) on a dict, as the set holding the value (empty for None)
DictGet(d, key) ==
    IF d = None THEN {} ELSE {item[2] : item \in {it \in d.items : it[1] = key}}

\* MRJobRunner._jobconf_for_step(step_num): the step's own jobconf
_jobconf_for_step(step_num) ==
    IF _get_step(step_num).jobconf = None THEN PyDict({})
    ELSE _get_step(step_num).jobconf

\* the names one jobconf variable has had across Hadoop versions
_JOBCONF_MAP(name) ==
    CASE name = "mapreduce.map.output.compress" ->
            {"mapred.compress.map.output"}
      [] name = "mapreduce.map.output.compress.codec" ->
            {"mapred.map.output.compression.codec"}
      [] OTHER -> {}

\* mrjob.compat.jobconf_from_dict(jobconf, name): the value under the name
\* or under one of its alternatives, as a set (empty for None)
jobconf_from_dict(jobconf, name) ==
    IF DictGet(jobconf, name) # {} THEN DictGet(jobconf, name)
    ELSE LET alts == {a \in _JOBCONF_MAP(name) : DictGet(jobconf, a) # {}}
         IN  IF alts = {} THEN {}
             ELSE DictGet(jobconf, CHOOSE a \in alts : TRUE)

\* truth value of an optional string: None and '' are false
Truthy(opt) == \E v \in opt : v # ""

\* MRJobBinRunner._spark_script_args(step_num, last_step_num), for the
\* steps Spark runs natively
super_spark_script_args(step_num, last_step_num) ==
    <<[native |-> _get_step(step_num).type, step_num |-> step_num]>>

\* MRJobBinRunner._spark_script_path(step_num), for the steps Spark runs
\* natively
super_spark_script_path(step_num) ==
    [script |-> _get_step(step_num).type, step_num |-> step_num]

\* self._mrjob_cls.__name__
_mrjob_cls_name == <<"M", "R", "J">>

(***************************************************************************)
(* _job_script_module_name                                                 *)
(***************************************************************************)
\* the characters matched by \w or \d
WordChars == {"w", "c", "m", "r", "1", "2", "_"}

\* re.sub(r'[^\w\d]', '_', self._job_key)
_job_script_module_name ==
    [i \in 1..Len(job_key) |->
        IF job_key[i] \in WordChars THEN job_key[i] ELSE "_"]

(***************************************************************************)
(* _group_steps                                                            *)
(***************************************************************************)
\* mutant: the type of the step itself is not looked at
add_to_existing_group_any_type(step, grps) ==
    /\ grps # <<>>
    /\ grps[Len(grps)].type = "streaming"
    /\ step.jobconf = grps[Len(grps)].steps[1].jobconf

\* mutant: the jobconfs are not compared
add_to_existing_group_any_jobconf(step, grps) ==
    /\ step.type = "streaming"
    /\ grps # <<>>
    /\ grps[Len(grps)].type = "streaming"

\* should we add *step* to the existing group of streaming steps?
add_to_existing_group(step, grps) ==
    /\ step.type = "streaming"
    /\ grps # <<>>
    /\ grps[Len(grps)].type = "streaming"
    /\ step.jobconf = grps[Len(grps)].steps[1].jobconf

\* mutant: the group is numbered from 1
new_step_group_one_indexed(step, step_num) ==
    [type |-> step.type, steps |-> <<step>>, step_num |-> step_num + 1]

\* start a new step group
new_step_group(step, step_num) ==
    [type |-> step.type, steps |-> <<step>>, step_num |-> step_num]

\* the body of the loop over enumerate(steps), from step_num on
RECURSIVE group_steps_from(_, _, _)
group_steps_from(stps, step_num, grps) ==
    IF step_num = Len(stps) THEN grps
    ELSE LET step == stps[step_num + 1]
         IN  IF add_to_existing_group(step, grps)
             THEN group_steps_from(stps, step_num + 1,
                      [grps EXCEPT ![Len(grps)].steps = Append(@, step)])
             ELSE group_steps_from(stps, step_num + 1,
                      Append(grps, new_step_group(step, step_num)))

_group_steps(stps) == group_steps_from(stps, 0, <<>>)

(***************************************************************************)
(* _spark_script_path, _spark_script_args                                  *)
(***************************************************************************)
_spark_harness_path == [script |-> "mrjob_spark_harness.py", step_num |-> 0]

_spark_script_path(step_num) ==
    IF _get_step(step_num).type = "streaming" THEN _spark_harness_path
    ELSE super_spark_script_path(step_num)

\* the step range flags
step_range_args(step_num, last_step_num) ==
    IF ~(step_num = 0 /\ last_step_num = _num_steps - 1)
    THEN <<PyStr("--first-step-num"), PyInt(step_num),
           PyStr("--last_step_num"), PyInt(step_num)>>
    ELSE <<>>

\* the passthrough arguments
job_args_args ==
    IF job_args # <<>> THEN <<PyStr("--job-args"), cmd_line(job_args)>>
    ELSE <<>>

\* the compression codec
compression_codec_args(step_num) ==
    LET jobconf == _jobconf_for_step(step_num)
        compress_conf ==
            jobconf_from_dict(jobconf, "mapreduce.map.output.compress")
        codec_conf ==
            jobconf_from_dict(jobconf, "mapreduce.map.output.compress.codec")
    IN  IF Truthy(compress_conf) /\ compress_conf # {"false"}
           /\ Truthy(codec_conf)
        THEN <<PyStr("--compression-codec"),
               PyStr(CHOOSE v \in codec_conf : TRUE)>>
        ELSE <<>>

\* mutant: the output location is that of the group's first step
harness_args_first_output(step_num, last) ==
    << PyChars(_job_script_module_name \o <<".">> \o _mrjob_cls_name),
       [joined |-> PyJoin(<<",">>, _step_input_uris(step_num))],
       [uri |-> _step_output_uri(step_num)] >>
        \o step_range_args(step_num, last)
        \o job_args_args
        \o compression_codec_args(step_num)

\* the harness arguments of the streaming steps step_num..last
harness_args(step_num, last) ==
    << PyChars(_job_script_module_name \o <<".">> \o _mrjob_cls_name),
       [joined |-> PyJoin(<<",">>, _step_input_uris(step_num))],
       [uri |-> _step_output_uri(last)] >>
        \o step_range_args(step_num, last)
        \o job_args_args
        \o compression_codec_args(step_num)

_spark_script_args(step_num, last_step_num) ==
    IF _get_step(step_num).type # "streaming"
    THEN super_spark_script_args(step_num, last_step_num)
    ELSE harness_args(step_num,
             IF last_step_num = NoneInt THEN step_num ELSE last_step_num)

\* MRJobBinRunner._args_for_spark_step(step_num, last_step_num): the
\* command line of spark-submit, ending with the script and its arguments
_args_for_spark_step(step_num, last_step_num) ==
    [script |-> _spark_script_path(step_num),
     script_args |-> _spark_script_args(step_num, last_step_num)]

(***************************************************************************)
(* _run_step_on_spark, _run_steps_on_spark                                 *)
(***************************************************************************)
\* str(CalledProcessError(returncode, cmd))
CalledProcessError_str(returncode, cmd) ==
    <<"Command", cmd, "returned non-zero exit status", returncode>>

StepFailedException(reason, step_num, last_step_num, num_steps) ==
    [type |-> "StepFailedException", reason |-> reason,
     step_num |-> step_num, last_step_num |-> last_step_num,
     num_steps |-> num_steps]

\* mutant: the return code is not looked at
_run_step_on_spark_unchecked(step_num, last_step_num, returncode) == None

\* mutant: the exception is not told the last step of the group
_run_step_on_spark_no_last(step_num, last_step_num, returncode) ==
    LET spark_submit_args == _args_for_spark_step(step_num, last_step_num)
    IN  IF returncode # 0
        THEN StepFailedException(
                 CalledProcessError_str(returncode, spark_submit_args),
                 step_num, NoneInt, _num_steps)
        ELSE None

\* what _run_step_on_spark raises (None when it returns) once spark-submit
\* has returned returncode
_run_step_on_spark(step_num, last_step_num, returncode) ==
    LET spark_submit_args == _args_for_spark_step(step_num, last_step_num)
    IN  IF returncode # 0
        THEN StepFailedException(
                 CalledProcessError_str(returncode, spark_submit_args),
                 step_num, last_step_num, _num_steps)
        ELSE None

\* mutant: off by one
group_last_step_num_off_by_one(group) == group.step_num + Len(group.steps)

\* last_step_num = step_num + len(group['steps']) - 1
group_last_step_num(group) == group.step_num + Len(group.steps) - 1

\* _run_steps_on_spark, up to the loop: steps are fetched and grouped
StartRunSteps ==
    /\ pc = "ready"
    /\ groups' = _group_steps(steps)
    /\ gi' = 1
    /\ pc' = IF _group_steps(steps) = <<>> THEN "done" ELSE "loop"
    /\ UNCHANGED <<steps, job_key, job_args, submissions, exc>>
    /\ UNCHANGED fsVars
    /\ UNCHANGED jobVars

\* one iteration of the loop: the group is submitted, spark-submit returns
RunGroup ==
    /\ pc = "loop"
    /\ \E returncode \in ExitCodes :
         LET group == groups[gi]
             step_num == group.step_num
             last_step_num == group_last_step_num(group)
             raised == _run_step_on_spark(step_num, last_step_num, returncode)
         IN  /\ submissions' = Append(submissions,
                   [step_num |-> step_num, last_step_num |-> last_step_num,
                    args |-> _args_for_spark_step(step_num, last_step_num),
                    returncode |-> returncode])
             /\ exc' = raised
             /\ IF raised # None
                THEN pc' = "failed" /\ gi' = gi
                ELSE /\ gi' = gi + 1
                     /\ pc' = IF gi = Len(groups) THEN "done" ELSE "loop"
    /\ UNCHANGED <<steps, job_key, job_args, groups>>
    /\ UNCHANGED fsVars
    /\ UNCHANGED jobVars

(***************************************************************************)
(* fs, and the composite filesystem it builds                              *)
(***************************************************************************)
BackendNames == {"s3", "gcs", "hadoop", "local"}

\* the schemes of the URIs handed to the filesystem; none handles "ftp"
Schemes == BackendNames \cup {"ftp"}

\* what a backend does with a call that reaches it
Outcomes == {"ok", "permanent error", "transient error"}

\* CompositeFilesystem()
CompositeFilesystem ==
    [type |-> "CompositeFilesystem", id |-> fs_builds + 1,
     fs_names |-> <<>>, disable_if |-> {}, disabled |-> {}]

\* CompositeFilesystem.add_fs(name, fs, disable_if=None); has_disable_if
\* tells whether a predicate for permanent errors is given
add_fs(cfs, name, has_disable_if) ==
    [cfs EXCEPT !.fs_names = Append(@, name),
                !.disable_if = IF has_disable_if THEN @ \cup {name} ELSE @]

\* mutant: the S3 filesystem is added whether or not boto3 is installed
build_fs_always_s3 ==
    LET fs0 == CompositeFilesystem
        fs1 == add_fs(fs0, "s3", TRUE)
        fs2 == IF google_libs_installed THEN add_fs(fs1, "gcs", TRUE) ELSE fs1
        fs3 == add_fs(fs2, "hadoop", FALSE)
    IN  add_fs(fs3, "local", FALSE)

\* the filesystem with every backend the runner knows of
build_fs ==
    LET fs0 == CompositeFilesystem
        fs1 == IF boto3_installed THEN add_fs(fs0, "s3", TRUE) ELSE fs0
        fs2 == IF google_libs_installed THEN add_fs(fs1, "gcs", TRUE) ELSE fs1
        fs3 == add_fs(fs2, "hadoop", FALSE)
    IN  add_fs(fs3, "local", FALSE)

\* mutant: the filesystem is built on every access
fs_rebuilt == build_fs

\* the fs property: self._fs, built on first access
fs == IF _fs = None THEN build_fs ELSE _fs

\* the backends registered with the filesystem
Registered(cfs) == {cfs.fs_names[i] : i \in 1..Len(cfs.fs_names)}

\* whether a call on a URI of the scheme reaches a backend
Reaches(cfs, scheme) == scheme \in Registered(cfs) \ cfs.disabled

\* the result of a call on a URI of the scheme, the backend ending the
\* call with outcome if the call reaches it
Result(cfs, scheme, outcome) ==
    IF scheme \notin Registered(cfs) THEN "UnsupportedScheme"
    ELSE IF scheme \in cfs.disabled THEN "BackendUnavailable"
    ELSE IF outcome = "ok" THEN "ok"
    ELSE IF outcome = "permanent error" /\ scheme \in cfs.disable_if
    THEN "BackendUnavailable"
    ELSE "TransientStorageError"

\* the filesystem after the call: a permanent error disables the backend
AfterCall(cfs, scheme, outcome) ==
    IF /\ Reaches(cfs, scheme)
       /\ outcome = "permanent error"
       /\ scheme \in cfs.disable_if
    THEN [cfs EXCEPT !.disabled = @ \cup {scheme}]
    ELSE cfs

\* self.fs.<op>(...) on a URI of some scheme
FsCall(op) ==
    \E scheme \in Schemes, outcome \in Outcomes :
        LET cfs == fs
        IN  /\ Reaches(cfs, scheme) => invoked[scheme] < MaxCalls
            /\ _fs' = AfterCall(cfs, scheme, outcome)
            /\ invoked' = IF Reaches(cfs, scheme)
                          THEN [invoked EXCEPT ![scheme] = @ + 1]
                          ELSE invoked
            /\ lastOp' = [op |-> op, scheme |-> scheme,
                          reached |-> Reaches(cfs, scheme),
                          result |-> Result(cfs, scheme, outcome)]
            /\ fs_builds' = cfs.id
            /\ UNCHANGED <<boto3_installed, google_libs_installed>>
            /\ UNCHANGED runVars
            /\ UNCHANGED jobVars

put == FsCall("put")
mkdir == FsCall("mkdir")
exists == FsCall("exists")
delete == FsCall("delete")

(***************************************************************************)
(* __init__ and _check_step                                                *)
(***************************************************************************)
\* what a mapper, combiner or reducer of a step runs
Script == [type |-> "script"]
Command == [type |-> "command", command |-> "cat"]
Filtered == [type |-> "script", pre_filter |-> "grep"]

JobStep(type, input_manifest, mapper, combiner, reducer) ==
    [type |-> type, jobconf |-> None, input_manifest |-> input_manifest,
     mapper |-> mapper, combiner |-> combiner, reducer |-> reducer]

\* the steps a job may be made of, before they are checked
JobStepUniverse ==
    {JobStep("streaming", FALSE, Script, None, Script),
     JobStep("streaming", FALSE, Command, None, None),
     JobStep("streaming", FALSE, Script, Filtered, Script),
     JobStep("streaming", FALSE, Script, None, Command),
     JobStep("streaming", TRUE, Script, None, None),
     JobStep("spark", FALSE, None, None, None),
     JobStep("spark_script", TRUE, None, None, None)}

\* step.get('input_manifest')
input_manifest(step) ==
    "input_manifest" \in DOMAIN step /\ step.input_manifest

\* step.get(mrc) and ('command' in step[mrc] or 'pre_filter' in step[mrc])
runs_command(step, mrc) ==
    /\ mrc \in DOMAIN step
    /\ step[mrc] # None
    /\ \/ "command" \in DOMAIN step[mrc]
       \/ "pre_filter" \in DOMAIN step[mrc]

\* mutant: only the mapper is looked at
_check_step_mapper_only(step, step_num) ==
    IF input_manifest(step)
    THEN [type |-> "NotImplementedError", step_num |-> step_num]
    ELSE IF step.type = "streaming" /\ _mrjob_cls = None
    THEN [type |-> "ValueError", step_num |-> step_num]
    ELSE IF step.type = "streaming" /\ runs_command(step, "mapper")
    THEN [type |-> "NotImplementedError", step_num |-> step_num]
    ELSE None

\* what _check_step raises (None when it returns)
_check_step(step, step_num) ==
    IF input_manifest(step)
    THEN [type |-> "NotImplementedError", step_num |-> step_num]
    ELSE IF step.type = "streaming" /\ _mrjob_cls = None
    THEN [type |-> "ValueError", step_num |-> step_num]
    ELSE IF /\ step.type = "streaming"
            /\ \E mrc \in {"mapper", "combiner", "reducer"} :
                   runs_command(step, mrc)
    THEN [type |-> "NotImplementedError", step_num |-> step_num]
    ELSE None

\* MRJobRunner.__init__ checks every step, in order: what the first
\* failing _check_step raises (None when every step passes)
_check_steps ==
    LET failing == {n \in 0..(Len(steps) - 1) :
                       _check_step(steps[n + 1], n) # None}
    IN  IF failing = {} THEN None
        ELSE LET n == CHOOSE m \in failing : \A k \in failing : m <= k
             IN  _check_step(steps[n + 1], n)

\* MRJobBinRunner._spark_master_is_local()
_spark_master_is_local == opts.spark_master = "local[*]"

\* mrjob.hadoop.fully_qualify_hdfs_path('tmp/mrjob')
hdfs_tmp_mrjob == Path("hadoop", << <<"tmp">>, <<"mrjob">> >>)

_pick_spark_tmp_dir ==
    IF opts.spark_tmp_dir # None
    THEN join(opts.spark_tmp_dir, job_key)
    ELSE IF _spark_master_is_local
    THEN join(gettempdir, job_key \o <<"-spark">>)
    ELSE join(hdfs_tmp_mrjob, job_key)

\* mrjob.setup.UploadDirManager(prefix): the local paths to upload, in the
\* order they were added
UploadDirManager(prefix) ==
    [type |-> "UploadDirManager", prefix |-> prefix, paths |-> <<>>]

\* UploadDirManager.add(path): a path is recorded once
upload_mgr_add(mgr, path) ==
    IF \E i \in 1..Len(mgr.paths) : mgr.paths[i] = path THEN mgr
    ELSE [mgr EXCEPT !.paths = Append(@, path)]

\* UploadDirManager.uri(path): the prefix joined with the path's basename
upload_mgr_uri(mgr, path) == join(mgr.prefix, basename(path))

\* mutant: the upload manager is created whatever the temp directory
new_upload_mgr_always(spark_tmp_dir) ==
    UploadDirManager(join(spark_tmp_dir, <<"files">>))

\* where local files are uploaded into Spark: an upload manager only if
\* the temp directory is a URI
new_upload_mgr(spark_tmp_dir) ==
    IF is_uri(spark_tmp_dir)
    THEN UploadDirManager(join(spark_tmp_dir, <<"files">>))
    ELSE None

\* the constructor: the superclass checks the steps, then the temp
\* directory is picked and, if it is a URI, the upload manager created
__init__ ==
    /\ pc = "new"
    /\ IF _check_steps # None
       THEN /\ pc' = "invalid"
            /\ exc' = _check_steps
            /\ UNCHANGED <<_spark_tmp_dir, _upload_mgr>>
       ELSE /\ pc' = "constructed"
            /\ exc' = exc
            /\ _spark_tmp_dir' = _pick_spark_tmp_dir
            /\ _upload_mgr' = new_upload_mgr(_pick_spark_tmp_dir)
    /\ _job_script_copy' = None
    /\ UNCHANGED <<steps, job_key, job_args, groups, gi, submissions>>
    /\ UNCHANGED fsVars
    /\ UNCHANGED <<_mrjob_cls, opts, _working_dir_mgr, _spark_files,
                   _mrjob_script_copy, script_copies, copy_returns, fs_calls,
                   ui>>

(***************************************************************************)
(* _get_job_script_copy                                                    *)
(***************************************************************************)
\* MRJobRunner._get_local_tmp_dir()
_get_local_tmp_dir == join(gettempdir, job_key)

_get_job_script_dir == join(_get_local_tmp_dir, <<"job_script">>)

\* WorkingDirManager.add(type, path, name): adding the same file under the
\* same name again changes nothing
working_dir_mgr_add(mgr, type, path, name) ==
    LET entry == [type |-> type, path |-> path, name |-> name]
    IN  IF \E i \in 1..Len(mgr) : mgr[i] = entry THEN mgr
        ELSE Append(mgr, entry)

\* WorkingDirManager.paths()
working_dir_mgr_paths(mgr) == {mgr[i].path : i \in 1..Len(mgr)}

\* MRJobBinRunner._has_streaming_steps()
_has_streaming_steps ==
    \E i \in 1..Len(steps) : steps[i].type = "streaming"

\* mutant: the copy is named after the job key as it is
job_script_filename_raw_key == job_key \o <<".", "p", "y">>

\* the name of the copy of the job script
job_script_filename == _job_script_module_name \o <<".", "p", "y">>

\* mutant: the copy is not added to the working directory
_get_job_script_copy_unregistered ==
    LET filename == job_script_filename
        dest == join(_get_job_script_dir, filename)
    IN  [_spark_files |-> Append(_spark_files, <<filename, dest>>),
         _working_dir_mgr |-> _working_dir_mgr,
         _mrjob_script_copy |-> dest,
         script_copies |-> script_copies + 1,
         result |-> dest]

\* where the copy of the job script is put
job_script_dest == join(_get_job_script_dir, job_script_filename)

\* what a call of _get_job_script_copy leaves in the runner's attributes,
\* and what it returns
_get_job_script_copy ==
    IF _job_script_copy = None
    THEN LET filename == job_script_filename
             dest == join(_get_job_script_dir, filename)
         IN  [_spark_files |-> Append(_spark_files, <<filename, dest>>),
              _working_dir_mgr |->
                  working_dir_mgr_add(_working_dir_mgr, "file", dest,
                                      filename),
              _mrjob_script_copy |-> dest,
              script_copies |-> script_copies + 1,
              result |-> dest]
    ELSE [_spark_files |-> _spark_files,
          _working_dir_mgr |-> _working_dir_mgr,
          _mrjob_script_copy |-> _mrjob_script_copy,
          script_copies |-> script_copies,
          result |-> _mrjob_script_copy]

\* a call of _get_job_script_copy on a runner that is not running
call_get_job_script_copy ==
    /\ pc = "constructed"
    /\ Len(copy_returns) < MaxCopyCalls
    /\ _spark_files' = _get_job_script_copy._spark_files
    /\ _working_dir_mgr' = _get_job_script_copy._working_dir_mgr
    /\ _mrjob_script_copy' = _get_job_script_copy._mrjob_script_copy
    /\ script_copies' = _get_job_script_copy.script_copies
    /\ copy_returns' = Append(copy_returns, _get_job_script_copy.result)
    /\ UNCHANGED runVars
    /\ UNCHANGED fsVars
    /\ UNCHANGED <<_mrjob_cls, opts, _spark_tmp_dir, _upload_mgr,
                   _job_script_copy, fs_calls, ui>>

(***************************************************************************)
(* _run, _add_job_files_for_upload, _upload_local_files                    *)
(***************************************************************************)
\* the setup wrapper script
setup_wrapper == join(_get_local_tmp_dir, <<"setup-wrapper.sh">>)

\* MRJobBinRunner._create_setup_wrapper_scripts(): with setup commands, a
\* wrapper script is written and added to the working directory
_create_setup_wrapper_scripts(mgr) ==
    IF opts.setup
    THEN working_dir_mgr_add(mgr, "file", setup_wrapper,
                             <<"setup-wrapper.sh">>)
    ELSE mgr

\* the orders in which a set can be iterated over
Orders(S) ==
    {order \in [1..Cardinality(S) -> S] :
        \A i, j \in 1..Cardinality(S) : order[i] = order[j] => i = j}

RECURSIVE add_all(_, _)
add_all(mgr, paths) ==
    IF paths = <<>> THEN mgr
    ELSE add_all(upload_mgr_add(mgr, paths[1]), Tail(paths))

\* mutant: nothing is added
_add_job_files_for_upload_nothing(working_dir_mgr, order) == _upload_mgr

\* the upload manager after _add_job_files_for_upload, the paths of the
\* working directory being iterated over in the given order
_add_job_files_for_upload(working_dir_mgr, order) ==
    IF _upload_mgr # None THEN add_all(_upload_mgr, order)
    ELSE _upload_mgr

\* _run, up to the first call of the filesystem in _upload_local_files
_run ==
    /\ pc = "constructed"
    /\ LET copy == IF _has_streaming_steps THEN _get_job_script_copy
                   ELSE [_spark_files |-> _spark_files,
                         _working_dir_mgr |-> _working_dir_mgr,
                         _mrjob_script_copy |-> _mrjob_script_copy,
                         script_copies |-> script_copies,
                         result |-> None]
           working_dir_mgr ==
               _create_setup_wrapper_scripts(copy._working_dir_mgr)
       IN  /\ _spark_files' = copy._spark_files
           /\ _mrjob_script_copy' = copy._mrjob_script_copy
           /\ script_copies' = copy.script_copies
           /\ copy_returns' = IF _has_streaming_steps
                              THEN Append(copy_returns, copy.result)
                              ELSE copy_returns
           /\ _working_dir_mgr' = working_dir_mgr
           /\ \E order \in Orders(working_dir_mgr_paths(working_dir_mgr)) :
                  _upload_mgr' =
                      _add_job_files_for_upload(working_dir_mgr, order)
    /\ pc' = IF _upload_mgr = None THEN "ready" ELSE "mkdir"
    /\ UNCHANGED <<steps, job_key, job_args, groups, gi, submissions, exc>>
    /\ UNCHANGED fsVars
    /\ UNCHANGED <<_mrjob_cls, opts, _spark_tmp_dir, _job_script_copy,
                   fs_calls, ui>>

\* a call of the filesystem by _upload_local_files, on a URI; an error
\* leaves _run
upload_call(call, uri, next_pc, next_ui) ==
    \E outcome \in Outcomes :
        LET cfs == fs
            result == Result(cfs, uri.scheme, outcome)
        IN  /\ _fs' = AfterCall(cfs, uri.scheme, outcome)
            /\ invoked' = IF Reaches(cfs, uri.scheme)
                          THEN [invoked EXCEPT ![uri.scheme] = @ + 1]
                          ELSE invoked
            /\ lastOp' = [op |-> call.op, scheme |-> uri.scheme,
                          reached |-> Reaches(cfs, uri.scheme),
                          result |-> result]
            /\ fs_builds' = cfs.id
            /\ fs_calls' = Append(fs_calls,
                                  [call EXCEPT !.result = result])
            /\ IF result = "ok"
               THEN pc' = next_pc /\ ui' = next_ui /\ exc' = exc
               ELSE /\ pc' = "failed"
                    /\ ui' = ui
                    /\ exc' = [type |-> result, uri |-> uri]
            /\ UNCHANGED <<boto3_installed, google_libs_installed>>
            /\ UNCHANGED <<steps, job_key, job_args, groups, gi,
                           submissions>>
            /\ UNCHANGED <<_mrjob_cls, opts, _spark_tmp_dir, _upload_mgr,
                           _working_dir_mgr, _spark_files, _job_script_copy,
                           _mrjob_script_copy, script_copies, copy_returns>>

\* self.fs.mkdir(self._upload_mgr.prefix)
upload_mkdir ==
    /\ pc = "mkdir"
    /\ upload_call([op |-> "mkdir", uri |-> _upload_mgr.prefix,
                    result |-> "ok"],
                   _upload_mgr.prefix,
                   IF _upload_mgr.paths = <<>> THEN "ready" ELSE "put", 1)

\* mutant: the loop never moves on from the first item
upload_item_first(i) ==
    [src_path |-> _upload_mgr.paths[1],
     uri |-> upload_mgr_uri(_upload_mgr, _upload_mgr.paths[1])]

\* the i-th (src_path, uri) of self._upload_mgr.path_to_uri().items()
upload_item(i) ==
    [src_path |-> _upload_mgr.paths[i],
     uri |-> upload_mgr_uri(_upload_mgr, _upload_mgr.paths[i])]

\* self.fs.put(src_path, uri), for the next item of path_to_uri()
upload_put ==
    /\ pc = "put"
    /\ LET src_path == upload_item(ui).src_path
           uri == upload_item(ui).uri
       IN  upload_call([op |-> "put", src_path |-> src_path, uri |-> uri,
                        result |-> "ok"],
                       uri,
                       IF ui = Len(_upload_mgr.paths) THEN "ready" ELSE "put",
                       ui + 1)

\* a file the job needs in its working directory
UploadFile ==
    [type |-> "file", path |-> Path("local", << <<"data.db">> >>),
     name |-> <<"data.db">>]

\* the arguments of the constructor, before it has run
JobInit ==
    /\ steps \in SeqsUpTo(JobStepUniverse, MaxJobSteps)
    /\ job_key \in JobKeys
    /\ job_args = <<>>
    /\ pc = "new"
    /\ groups = <<>>
    /\ gi = 0
    /\ submissions = <<>>
    /\ exc = None
    /\ _fs = None
    /\ boto3_installed = TRUE
    /\ google_libs_installed = TRUE
    /\ invoked = [name \in BackendNames |-> 0]
    /\ lastOp = None
    /\ fs_builds = 0
    /\ _mrjob_cls \in {None, MRJ}
    /\ opts \in [spark_master : {"local[*]", "yarn"},
                 spark_deploy_mode : {"client"},
                 spark_tmp_dir : SparkTmpDirs, setup : BOOLEAN]
    /\ _spark_tmp_dir = None
    /\ _upload_mgr = None
    /\ _working_dir_mgr = <<UploadFile>>
    /\ _spark_files = <<>>
    /\ _job_script_copy = None
    /\ _mrjob_script_copy = None
    /\ script_copies = 0
    /\ copy_returns = <<>>
    /\ fs_calls = <<>>
    /\ ui = 0

\* the life of a runner: it is constructed, then run
JobNext ==
    \/ __init__
    \/ _run
    \/ upload_mkdir
    \/ upload_put
    \/ StartRunSteps
    \/ RunGroup

JobSpec == JobInit /\ [][JobNext]_vars

\* a runner whose job script copy is asked for again and again
CopyNext == __init__ \/ call_get_job_script_copy

CopySpec == JobInit /\ [][CopyNext]_vars

\* the runner once _run has staged its files, in a local temp directory:
\* the steps have passed _check_step, the copy of the job script is there
\* if a step is a streaming step, no filesystem has been built
Init ==
    /\ steps \in SeqsUpTo(StepUniverse, MaxSteps)
    /\ job_key \in JobKeys
    /\ job_args \in JobArgs
    /\ pc = "ready"
    /\ groups = <<>>
    /\ gi = 0
    /\ submissions = <<>>
    /\ exc = None
    /\ _fs = None
    /\ boto3_installed = TRUE
    /\ google_libs_installed = TRUE
    /\ invoked = [name \in BackendNames |-> 0]
    /\ lastOp = None
    /\ fs_builds = 0
    /\ _mrjob_cls = MRJ
    /\ opts = DefaultOpts
    /\ _spark_tmp_dir = _pick_spark_tmp_dir
    /\ _upload_mgr = None
    /\ _working_dir_mgr =
           IF _has_streaming_steps
           THEN <<[type |-> "file", path |-> job_script_dest,
                   name |-> job_script_filename]>>
           ELSE <<>>
    /\ _spark_files =
           IF _has_streaming_steps
           THEN << <<job_script_filename, job_script_dest>> >>
           ELSE <<>>
    /\ _job_script_copy = None
    /\ _mrjob_script_copy =
           IF _has_streaming_steps THEN job_script_dest ELSE None
    /\ script_copies = IF _has_streaming_steps THEN 1 ELSE 0
    /\ copy_returns =
           IF _has_streaming_steps THEN <<job_script_dest>> ELSE <<>>
    /\ fs_calls = <<>>
    /\ ui = 0

\* a runner of a job of no steps, with or without the libraries of the
\* cloud filesystems
FsInit ==
    /\ steps = <<>>
    /\ job_key = <<"w", "c", ".", "1">>
    /\ job_args = <<>>
    /\ pc = "ready"
    /\ groups = <<>>
    /\ gi = 0
    /\ submissions = <<>>
    /\ exc = None
    /\ _fs = None
    /\ boto3_installed \in BOOLEAN
    /\ google_libs_installed \in BOOLEAN
    /\ invoked = [name \in BackendNames |-> 0]
    /\ lastOp = None
    /\ fs_builds = 0
    /\ _mrjob_cls = MRJ
    /\ opts = DefaultOpts
    /\ _spark_tmp_dir = _pick_spark_tmp_dir
    /\ _upload_mgr = None
    /\ _working_dir_mgr = <<>>
    /\ _spark_files = <<>>
    /\ _job_script_copy = None
    /\ _mrjob_script_copy = None
    /\ script_copies = 0
    /\ copy_returns = <<>>
    /\ fs_calls = <<>>
    /\ ui = 0

Next == StartRunSteps \/ RunGroup

Spec == Init /\ [][Next]_vars

\* _run_steps_on_spark is sequential code, and _run_spark_submit returns
\* when the spark-submit process exits: a run that can take a step takes it
FairSpec == Init /\ [][Next]_vars /\ WF_vars(Next)

\* runners of short jobs whose steps set map output compression in every
\* way
ConfInit ==
    /\ steps \in SeqsUpTo(ConfStepUniverse, MaxConfSteps)
    /\ job_key = <<"w", "c", ".", "1">>
    /\ job_args \in JobArgs
    /\ pc = "ready"
    /\ groups = <<>>
    /\ gi = 0
    /\ submissions = <<>>
    /\ exc = None
    /\ _fs = None
    /\ boto3_installed = TRUE
    /\ google_libs_installed = TRUE
    /\ invoked = [name \in BackendNames |-> 0]
    /\ lastOp = None
    /\ fs_builds = 0
    /\ _mrjob_cls = MRJ
    /\ opts = DefaultOpts
    /\ _spark_tmp_dir = _pick_spark_tmp_dir
    /\ _upload_mgr = None
    /\ _working_dir_mgr =
           IF _has_streaming_steps
           THEN <<[type |-> "file", path |-> job_script_dest,
                   name |-> job_script_filename]>>
           ELSE <<>>
    /\ _spark_files =
           IF _has_streaming_steps
           THEN << <<job_script_filename, job_script_dest>> >>
           ELSE <<>>
    /\ _job_script_copy = None
    /\ _mrjob_script_copy =
           IF _has_streaming_steps THEN job_script_dest ELSE None
    /\ script_copies = IF _has_streaming_steps THEN 1 ELSE 0
    /\ copy_returns =
           IF _has_streaming_steps THEN <<job_script_dest>> ELSE <<>>
    /\ fs_calls = <<>>
    /\ ui = 0

ConfSpec == ConfInit /\ [][Next]_vars

\* the callers of the runner's filesystem, on a runner that is not running
FsNext == put \/ mkdir \/ exists \/ delete

FsSpec == FsInit /\ [][FsNext]_vars

(***************************************************************************)
(* Properties of _group_steps                                              *)
(***************************************************************************)
\* the groups' 'steps' lists, concatenated in output order
RECURSIVE ConcatSteps(_)
ConcatSteps(grps) ==
    IF grps = <<>> THEN <<>> ELSE grps[1].steps \o ConcatSteps(Tail(grps))

\* the number of steps in the first k groups
RECURSIVE StepsBefore(_, _)
StepsBefore(grps, k) ==
    IF k = 0 THEN 0 ELSE StepsBefore(grps, k - 1) + Len(grps[k].steps)

Grouped == pc # "ready"

\* the index of the group that holds the step at ordinal i
GroupOf(i) ==
    CHOOSE k \in 1..Len(groups) :
        StepsBefore(groups, k - 1) <= i /\ i < StepsBefore(groups, k)

Streaming(jobconf) == [type |-> "streaming", jobconf |-> jobconf]
Native(type) == [type |-> type, jobconf |-> None]

\* C1: the groups returned by _group_steps are an order-preserving
\* partition of the steps: their 'steps' lists concatenated give back the
\* input, and each group's step_num is the 0-indexed position of its first
\* member.
C1_OrderPreservingPartition ==
    Grouped =>
        /\ ConcatSteps(groups) = steps
        /\ \A k \in 1..Len(groups) :
             /\ groups[k].steps # <<>>
             /\ groups[k].step_num = StepsBefore(groups, k - 1)
             /\ steps[groups[k].step_num + 1] = groups[k].steps[1]

C1_Witness ==
    /\ Grouped
    /\ Len(steps) = 4
    /\ Len(groups) = 2
    /\ Len(groups[1].steps) = 1
    /\ Len(groups[2].steps) = 3

\* C2: a group of more than one step holds only streaming steps whose
\* jobconf equals that of the group's first step, and a step of any other
\* type is alone in its group.
C2_GroupsAreHomogeneous ==
    Grouped =>
        \A k \in 1..Len(groups) :
            \A j \in 1..Len(groups[k].steps) :
                LET step == groups[k].steps[j]
                IN  /\ Len(groups[k].steps) > 1 =>
                           /\ step.type = "streaming"
                           /\ step.jobconf = groups[k].steps[1].jobconf
                    /\ step.type \in {"spark", "spark_jar", "spark_script"}
                           => Len(groups[k].steps) = 1

C2_Witness ==
    /\ Grouped
    /\ \E k \in 1..Len(groups) : Len(groups[k].steps) > 1
    /\ \E k \in 1..Len(groups) : groups[k].steps[1].type = "spark_jar"
    /\ \E k \in 1..Len(groups) : groups[k].steps[1].type = "spark_script"

ExampleSteps ==
    <<Streaming(CompressTrue), Streaming(CompressTrue), Native("spark"),
      Streaming(PyDict({}))>>

\* C3: groups are maximal: the steps at ordinals i and i+1 are in the same
\* group exactly when both are streaming steps with equal jobconfs; the
\* steps [streaming(A), streaming(A), native, streaming(B)] are grouped
\* into [{0,1}, {2}, {3}].
C3_GroupsAreMaximal ==
    Grouped =>
        /\ \A i \in 0..(Len(steps) - 2) :
             (GroupOf(i) = GroupOf(i + 1)) <=>
                 /\ steps[i + 1].type = "streaming"
                 /\ steps[i + 2].type = "streaming"
                 /\ steps[i + 1].jobconf = steps[i + 2].jobconf
        /\ steps = ExampleSteps =>
             /\ Len(groups) = 3
             /\ [k \in 1..3 |-> <<groups[k].step_num, Len(groups[k].steps)>>]
                    = << <<0, 2>>, <<2, 1>>, <<3, 1>> >>

C3_Witness ==
    /\ Grouped
    /\ steps = ExampleSteps

(***************************************************************************)
(* Properties of _spark_script_args                                        *)
(***************************************************************************)
\* the submissions of groups of streaming steps
StreamingSubmissions ==
    {i \in 1..Len(submissions) :
        steps[submissions[i].step_num + 1].type = "streaming"}

ScriptArgs(i) == submissions[i].args.script_args

\* the arguments hold the flag, followed by the value
HasFlagValue(args, flag, value) ==
    \E j \in 1..(Len(args) - 1) : args[j] = PyStr(flag) /\ args[j + 1] = value

HasFlag(args, flag) == \E j \in 1..Len(args) : args[j] = PyStr(flag)

SpansJob(sub) == sub.step_num = 0 /\ sub.last_step_num = Len(steps) - 1

\* C4: for a group of streaming steps that is a proper sub-range of the
\* job, the harness arguments hold --first-step-num followed by the group's
\* first step number and --last-step-num followed by its last one.
C4_StepRangeFlagsMatchGroup ==
    \A i \in StreamingSubmissions :
        ~SpansJob(submissions[i]) =>
            /\ HasFlagValue(ScriptArgs(i), "--first-step-num",
                            PyInt(submissions[i].step_num))
            /\ HasFlagValue(ScriptArgs(i), "--last-step-num",
                            PyInt(submissions[i].last_step_num))

\* C5: the step range flags are left out of the harness arguments exactly
\* when the group spans the whole job; any other group gets both flags.
C5_StepRangeFlagsIffProperSubrange ==
    \A i \in StreamingSubmissions :
        /\ SpansJob(submissions[i]) <=>
               /\ ~HasFlag(ScriptArgs(i), "--first-step-num")
               /\ ~HasFlag(ScriptArgs(i), "--last-step-num")
        /\ ~SpansJob(submissions[i]) =>
               /\ HasFlag(ScriptArgs(i), "--first-step-num")
               /\ HasFlag(ScriptArgs(i), "--last-step-num")

\* C6: the harness arguments begin with the job class, the comma-joined
\* input locations of the group's first step, and the output location of
\* the group's last step (not of its first).
C6_ArgsBeginWithClassInputOutput ==
    \A i \in StreamingSubmissions :
        LET sub == submissions[i]
            args == ScriptArgs(i)
        IN  /\ Len(args) >= 3
            /\ args[1] = PyChars(_job_script_module_name \o <<".">>
                                     \o _mrjob_cls_name)
            /\ args[2].joined =
                   IF sub.step_num = 0
                   THEN <<InputPaths[1], <<",">>, InputPaths[2]>>
                   ELSE <<_intermediate_output_uri(sub.step_num - 1)>>
            /\ args[3].uri =
                   IF sub.last_step_num = Len(steps) - 1 THEN _output_dir
                   ELSE _intermediate_output_uri(sub.last_step_num)
            /\ sub.last_step_num > sub.step_num =>
                   args[3].uri # _intermediate_output_uri(sub.step_num)

C6_Witness ==
    \E i \in StreamingSubmissions :
        /\ submissions[i].step_num = 1
        /\ submissions[i].last_step_num = 2
        /\ Len(steps) = 4
        /\ ScriptArgs(i)[3].uri = _intermediate_output_uri(2)

(***************************************************************************)
(* Properties of _run_steps_on_spark and _run_step_on_spark                *)
(***************************************************************************)
Failed(i) == submissions[i].returncode # 0

\* C7: groups are submitted in job order, one at a time: a group is
\* submitted only after the one before it has returned 0, and nothing is
\* submitted after the first submission that returns another code.
C7_SubmittedInOrderUntilFailure ==
    /\ [](/\ Len(submissions) <= Len(groups)
          /\ \A i \in 1..Len(submissions) :
               /\ submissions[i].step_num = groups[i].step_num
               /\ i < Len(submissions) => ~Failed(i))
    /\ [][(\E i \in 1..Len(submissions) : Failed(i))
             => submissions' = submissions]_vars

C7_Witness ==
    /\ pc = "failed"
    /\ Len(groups) = 3
    /\ Len(submissions) = 2
    /\ submissions[2].returncode = 1

\* C8: a return code of 0 gives no error; any other gives a
\* StepFailedException with the first and last step number of the group
\* that failed, the number of steps of the job, and a reason that tells
\* the return code.
C8_FailureCarriesGroupRange ==
    Len(submissions) > 0 =>
        LET k == Len(submissions)
            sub == submissions[k]
        IN  IF sub.returncode = 0
            THEN exc = None /\ pc # "failed"
            ELSE /\ pc = "failed"
                 /\ exc.type = "StepFailedException"
                 /\ exc.step_num = StepsBefore(groups, k - 1)
                 /\ exc.last_step_num = StepsBefore(groups, k) - 1
                 /\ exc.num_steps = Len(steps)
                 /\ exc.reason[3] = "returned non-zero exit status"
                 /\ exc.reason[4] = sub.returncode

C8_Witness ==
    /\ pc = "failed"
    /\ exc.type = "StepFailedException"
    /\ exc.step_num = 1
    /\ exc.last_step_num = 2
    /\ exc.num_steps = 4
    /\ Len(submissions) = 2

\* the submissions whose step range holds the step at ordinal n
Covering(n) ==
    {i \in 1..Len(submissions) :
        submissions[i].step_num <= n /\ n <= submissions[i].last_step_num}

\* C9: a group is submitted at most once, and a run whose submissions all
\* return 0 submits every group exactly once and ends, every step being
\* in the step range of exactly one submission.
C9_EachGroupSubmittedOnce ==
    /\ [](/\ \A i, j \in 1..Len(submissions) :
               submissions[i].step_num = submissions[j].step_num => i = j
          /\ \A n \in 0..(Len(steps) - 1) : Cardinality(Covering(n)) <= 1
          /\ pc = "done" =>
               /\ Len(submissions) = Len(groups)
               /\ \A n \in 0..(Len(steps) - 1) : Cardinality(Covering(n)) = 1)
    /\ ([](\A i \in 1..Len(submissions) : ~Failed(i))) => <>(pc = "done")

C9_Witness ==
    /\ pc = "done"
    /\ Len(steps) = 4
    /\ Len(submissions) = 3
    /\ \A i \in 1..Len(submissions) : ~Failed(i)

(***************************************************************************)
(* Properties of fs                                                        *)
(***************************************************************************)
Disabled(name) == _fs # None /\ name \in _fs.disabled

\* C10: a backend that has been disabled stays disabled: every later call
\* on a URI of its scheme fails with BackendUnavailable and does not reach
\* the backend.
C10_DisabledBackendStaysDisabled ==
    [][\A name \in BackendNames :
          Disabled(name) =>
              /\ Disabled(name)'
              /\ invoked'[name] = invoked[name]
              /\ lastOp'.scheme = name =>
                     /\ lastOp'.result = "BackendUnavailable"
                     /\ ~lastOp'.reached]_vars

C10_Witness ==
    /\ Disabled("s3")
    /\ invoked["s3"] = 1
    /\ lastOp # None
    /\ lastOp.scheme = "s3"
    /\ lastOp.result = "BackendUnavailable"
    /\ ~lastOp.reached

(***************************************************************************)
(* Properties of the compression codec argument                           *)
(***************************************************************************)
\* the values a step's jobconf gives under one of the names
ConfValues(step, names) ==
    IF step.jobconf = None THEN {}
    ELSE {item[2] : item \in {it \in step.jobconf.items : it[1] \in names}}

CompressNames ==
    {"mapreduce.map.output.compress", "mapred.compress.map.output"}

CodecNames ==
    {"mapreduce.map.output.compress.codec",
     "mapred.map.output.compression.codec"}

\* the spellings of false
DisablingValues == {"false", "False"}

\* the step's jobconf sets map output compression, and not to false
CompressionEnabled(step) ==
    /\ ConfValues(step, CompressNames) # {}
    /\ ConfValues(step, CompressNames) \cap DisablingValues = {}

\* C11: --compression-codec and the codec are in the harness arguments
\* exactly when the jobconf of the group's first step enables map output
\* compression and gives a codec; with compression left out or disabled,
\* however false is spelled, or no codec, the flag is left out.
C11_CompressionCodecIffEnabledAndCodec ==
    \A i \in StreamingSubmissions :
        LET step == steps[submissions[i].step_num + 1]
        IN  /\ HasFlag(ScriptArgs(i), "--compression-codec") <=>
                   /\ CompressionEnabled(step)
                   /\ ConfValues(step, CodecNames) # {}
            /\ HasFlag(ScriptArgs(i), "--compression-codec") =>
                   \E codec \in ConfValues(step, CodecNames) :
                       HasFlagValue(ScriptArgs(i), "--compression-codec",
                                    PyStr(codec))

(***************************************************************************)
(* Properties of __init__ and _check_step                                  *)
(***************************************************************************)
\* the step runs a command or a pre-filter in its mapper, combiner or
\* reducer
RunsCommand(step) ==
    \E sub \in {step.mapper, step.combiner, step.reducer} :
        sub \in {Command, Filtered}

\* the step is one the runner cannot run
Unsupported(step) ==
    \/ step.input_manifest
    \/ /\ step.type = "streaming"
       /\ RunsCommand(step) \/ _mrjob_cls = None

Constructed == pc \notin {"new", "invalid"}

\* C12: a job with a step that uses an input manifest, or a streaming step
\* that runs a command or a pre-filter or has no job class, fails in the
\* constructor: nothing is staged and nothing is submitted, wherever the
\* step is in the job.
C12_UnsupportedStepFailsInConstructor ==
    (\E i \in 1..Len(steps) : Unsupported(steps[i])) =>
        /\ ~Constructed
        /\ pc = "invalid" =>
               exc.type \in {"NotImplementedError", "ValueError"}
        /\ submissions = <<>>
        /\ fs_calls = <<>>
        /\ _fs = None
        /\ script_copies = 0
        /\ _upload_mgr = None

C12_Witness ==
    /\ pc = "invalid"
    /\ Len(steps) = 2
    /\ ~Unsupported(steps[1])
    /\ steps[2].type = "streaming"
    /\ steps[2].reducer = Command
    /\ exc.type = "NotImplementedError"
    /\ exc.step_num = 1

(***************************************************************************)
(* Properties of _run and _upload_local_files                              *)
(***************************************************************************)
\* the calls of the filesystem that returned without an error
OkCalls == {k \in 1..Len(fs_calls) : fs_calls[k].result = "ok"}

\* the local path has been copied to its place under the prefix
Uploaded(path) ==
    \E k \in OkCalls :
        /\ fs_calls[k].op = "put"
        /\ fs_calls[k].src_path = path
        /\ fs_calls[k].uri = join(_upload_mgr.prefix, basename(path))

Recorded == {_upload_mgr.paths[i] : i \in 1..Len(_upload_mgr.paths)}

\* C13: with a temp directory that is a URI, once a group is submitted the
\* upload directory has been made and every file of the working directory
\* is recorded and has been copied to its URI; the filesystem is not
\* called once a submission has started.
C13_StagedBeforeFirstSubmission ==
    /\ []((submissions # <<>> /\ _upload_mgr # None) =>
            /\ \E k \in OkCalls :
                   /\ fs_calls[k].op = "mkdir"
                   /\ fs_calls[k].uri = _upload_mgr.prefix
            /\ working_dir_mgr_paths(_working_dir_mgr) \subseteq Recorded
            /\ \A path \in Recorded : Uploaded(path))
    /\ [][submissions' # <<>> => fs_calls' = fs_calls]_vars

C13_Witness ==
    /\ submissions # <<>>
    /\ _upload_mgr # None
    /\ Len(_upload_mgr.paths) = 3
    /\ Len(fs_calls) = 4

\* C14: with a local temp directory there is no upload manager, no path
\* is recorded, the filesystem is never called, and _run goes on to
\* _run_steps_on_spark.
C14_LocalTmpDirStagesNothing ==
    /\ []((Constructed /\ ~is_uri(_spark_tmp_dir)) =>
            /\ _upload_mgr = None
            /\ fs_calls = <<>>
            /\ _fs = None
            /\ pc \notin {"mkdir", "put"})
    /\ [][(pc = "constructed" /\ ~is_uri(_spark_tmp_dir)) =>
             pc' = "ready"]_vars

C14_Witness ==
    /\ Constructed
    /\ ~is_uri(_spark_tmp_dir)
    /\ opts.spark_tmp_dir # None
    /\ Len(_working_dir_mgr) = 3
    /\ Len(submissions) = 2

\* C15: in a run each recorded path is put once, to its URI, the puts
\* follow the order in which the paths were recorded, and the upload
\* directory is made before any put.
C15_EachFilePutOnceInOrder ==
    _upload_mgr # None =>
        /\ \A i, j \in 1..Len(_upload_mgr.paths) :
               _upload_mgr.paths[i] = _upload_mgr.paths[j] => i = j
        /\ Len(fs_calls) <= 1 + Len(_upload_mgr.paths)
        /\ \A k \in 1..Len(fs_calls) :
               /\ k = 1 => fs_calls[k].op = "mkdir"
               /\ k > 1 =>
                      /\ fs_calls[k].op = "put"
                      /\ fs_calls[k].src_path = _upload_mgr.paths[k - 1]
                      /\ fs_calls[k].uri =
                             join(_upload_mgr.prefix,
                                  basename(_upload_mgr.paths[k - 1]))
               /\ k < Len(fs_calls) => k \in OkCalls
        /\ pc \in {"ready", "loop", "done"} =>
               /\ Len(fs_calls) = 1 + Len(_upload_mgr.paths)
               /\ \A k \in 1..Len(fs_calls) : k \in OkCalls

C15_Witness ==
    /\ _upload_mgr # None
    /\ pc = "ready"
    /\ Len(_upload_mgr.paths) = 3
    /\ Len(fs_calls) = 4

(***************************************************************************)
(* Properties of the copy of the job script                                *)
(***************************************************************************)
\* the characters of a name before its first dot
RECURSIVE BeforeDot(_)
BeforeDot(name) ==
    IF name = <<>> \/ name[1] = "." THEN <<>>
    ELSE <<name[1]>> \o BeforeDot(Tail(name))

\* a file name without the '.py' it ends with
WithoutPy(name) == SubSeq(name, 1, Len(name) - 3)

EndsWithPy(name) ==
    /\ Len(name) > 3
    /\ SubSeq(name, Len(name) - 2, Len(name)) = <<".", "p", "y">>

\* the files of the working directory whose module is the given one
ModuleFiles(module) ==
    {k \in 1..Len(_working_dir_mgr) :
        /\ EndsWithPy(_working_dir_mgr[k].name)
        /\ WithoutPy(_working_dir_mgr[k].name) = module
        /\ basename(_working_dir_mgr[k].path) = _working_dir_mgr[k].name}

\* C17: the module named by the first harness argument is the module of
\* the copy of the job script: the file registered for the working
\* directory is named after it.
C17_HarnessModuleIsStagedModule ==
    (Constructed /\ pc # "constructed") =>
        \A i \in StreamingSubmissions :
            LET module == BeforeDot(ScriptArgs(i)[1].chars)
            IN  /\ ScriptArgs(i)[1].chars = module \o <<".">> \o MRJ.name
                /\ ModuleFiles(module) # {}
                /\ \E k \in 1..Len(_spark_files) :
                       _spark_files[k][1] = module \o <<".", "p", "y">>

C17_Witness ==
    /\ Constructed
    /\ pc # "constructed"
    /\ StreamingSubmissions # {}
    /\ job_key = <<"w", "c", ".", "1">>
    /\ _upload_mgr # None

\* the entries of the working directory that are the copy of the job script
CopyEntries ==
    {k \in 1..Len(_working_dir_mgr) :
        _working_dir_mgr[k].name = job_script_filename}

\* C18: however often _get_job_script_copy is called, the copy is made once
\* and registered once, in _spark_files and in the working directory, and
\* every call returns the same path.
C18_JobScriptCopyMadeOnce ==
    copy_returns # <<>> =>
        /\ script_copies = 1
        /\ Len(_spark_files) = 1
        /\ Cardinality(CopyEntries) = 1
        /\ \A i, j \in 1..Len(copy_returns) : copy_returns[i] = copy_returns[j]

\* C19: in the run of a job with a streaming step the copy of the job
\* script is in the working directory when the files to upload are
\* collected, so that with a remote temp directory it has been uploaded
\* when a group of streaming steps is submitted; a job without streaming
\* steps has no copy.
C19_JobScriptCopyStagedBeforeSubmission ==
    (Constructed /\ pc # "constructed") =>
        /\ _has_streaming_steps =>
               /\ CopyEntries # {}
               /\ script_copies > 0
               /\ _upload_mgr # None =>
                      \A k \in CopyEntries :
                          _working_dir_mgr[k].path \in Recorded
        /\ (StreamingSubmissions # {} /\ _upload_mgr # None) =>
               \A k \in CopyEntries : Uploaded(_working_dir_mgr[k].path)
        /\ ~_has_streaming_steps =>
               /\ CopyEntries = {}
               /\ script_copies = 0
               /\ _spark_files = <<>>

C19_Witness ==
    /\ StreamingSubmissions # {}
    /\ _upload_mgr # None
    /\ \E k \in CopyEntries : Uploaded(_working_dir_mgr[k].path)
    /\ Len(steps) = 2
    /\ steps[1].type = "spark"

(***************************************************************************)
(* Properties of the construction of the filesystem                       *)
(***************************************************************************)
\* the backends in the order the fs property adds them
ExpectedBackends ==
    (IF boto3_installed THEN <<"s3">> ELSE <<>>)
        \o (IF google_libs_installed THEN <<"gcs">> ELSE <<>>)
        \o <<"hadoop", "local">>

\* C20: the filesystem is built once, on the first access of fs, with the
\* backends s3, gcs, hadoop, local in this order (s3 and gcs if their
\* libraries are installed); every later access gives the same object,
\* and no disabled backend is enabled again.
C20_FilesystemBuiltOnce ==
    /\ [](/\ fs_builds <= 1
          /\ _fs # None =>
                 /\ fs_builds = 1
                 /\ _fs.id = 1
                 /\ _fs.fs_names = ExpectedBackends
                 /\ _fs.disable_if = {"s3", "gcs"} \cap Registered(_fs))
    /\ [][_fs # None =>
             /\ _fs' # None
             /\ _fs'.id = _fs.id
             /\ _fs'.fs_names = _fs.fs_names
             /\ _fs.disabled \subseteq _fs'.disabled]_vars

C20_Witness ==
    /\ _fs # None
    /\ ~boto3_installed
    /\ google_libs_installed
    /\ _fs.disabled = {"gcs"}
    /\ invoked["hadoop"] = 2
    /\ lastOp.result = "UnsupportedScheme"

====
